---- MODULE Spec2Model ----
(***************************************************************************)
(* Order / payment / provisioning workflow of the hosting platform.        *)
(*                                                                         *)
(* The store is the Firebase realtime database: users/{u}/services/{id},   *)
(* invoices/{key}, subdomains/{key}, pannelneed/{username} and settings/*. *)
(* Every server action is a request handler that runs concurrently with    *)
(* the others; a handler gives up control at each `await`, so one action   *)
(* of the model is the code between two awaits of one handler.             *)
(***************************************************************************)
EXTENDS Integers, Sequences, FiniteSets, TLC

(***************************************************************************)
(* Bounds of the model.                                                    *)
(***************************************************************************)
MaxProcs == 2        \* request handlers in flight at the same time
MaxServices == 2     \* keys push() hands out under users/{u}/services
MaxSubs == 2         \* records under subdomains
MaxSecret == 2       \* distinct values of a random password/token pair

Procs == 1..MaxProcs
Sids == 1..MaxServices
Secrets == 1..MaxSecret

(***************************************************************************)
(* Inputs.  The empty string and the id 0 stand for a missing value.       *)
(***************************************************************************)
Users == {"u1", "u2"}
UserInputs == Users \cup {""}
PlanIds == {"p1"}
PlanInputs == PlanIds \cup {""}
PaidPrice == 499
Prices == {0, PaidPrice}
\* A price the administrator raises the plan to after an order.
RaisedPrice == PaidPrice + 100
SidInputs == Sids \cup {0}
NoPrice == -1

LabelShop == <<"s", "h", "o", "p">>
LabelBlog == <<"b", "l", "o", "g">>
LabelMySite == <<"M", "y", " ", "S", "i", "t", "e">>
LabelHyphen == <<"-", "a", "b">>
GoodLabels == {LabelShop, LabelBlog}
LabelShort == <<"a", "b">>
LabelLong == [i \in 1..31 |-> "a"]
LabelTrailing == <<"a", "b", "-">>
LabelInner == <<"a", "-", "b">>
LabelInputs == GoodLabels \cup {LabelMySite, LabelHyphen, LabelShort, LabelLong, LabelTrailing, LabelInner}
DomainCom == <<"e", "x", ".", "c", "o", "m">>
DomainNet == <<"e", "x", ".", "n", "e", "t">>
NoString == <<>>

ServiceStatuses == {"Active", "Suspended", "Terminated", "Banned", "Pending Activation", "Pending"}

VARIABLES
    services,      \* users/{u}/services/{id}
    invoices,      \* invoices/{key}, in key order
    subdomains,    \* subdomains/{key}, in key order
    pannelneed,    \* pannelneed/{username}
    restrictions,  \* settings/restrictions
    domain,        \* settings/domain
    stripe,        \* settings/gateways/stripe: enabled, and which secrets are stored
    plans,         \* plans/{planId}: the price
    nextKey,       \* next key push() returns under users/{u}/services
    proc,          \* the request handlers in flight
    reply          \* the answer of the handler that finished last

vars == <<services, invoices, subdomains, pannelneed, restrictions, domain, stripe, plans, nextKey, proc, reply>>

store == <<services, invoices, subdomains, pannelneed>>

settings == <<restrictions, domain, stripe, plans>>

(***************************************************************************)
(* Records of the store.                                                   *)
(***************************************************************************)
NoCpanel == [username |-> NoString, secret |-> 0]

NoService == [exists |-> FALSE, planId |-> "", price |-> NoPrice, status |-> "",
              subdomain |-> NoString, cpanel |-> NoCpanel]

ServiceKeys == Users \X Sids

Idle == [op |-> "idle", pc |-> "idle", u |-> "", sid |-> 0, planId |-> "", price |-> 0,
         label |-> NoString, st |-> "", inv |-> 0, dom |-> NoString, secret |-> 0, res |-> ""]

NoReply == [op |-> "none", res |-> ""]

\* A request is taken by the first handler slot that is not running one.
Free(p) ==
    /\ proc[p] = Idle
    /\ \A q \in 1..(p - 1) : proc[q] # Idle

\* The handler in slot p reaches `me`: its next await, or (pc "done") its
\* return or throw, which frees the slot and hands the result to the caller.
Step(p, me) ==
    IF me.pc = "done"
    THEN /\ proc' = [proc EXCEPT ![p] = Idle]
         /\ reply' = [op |-> me.op, res |-> me.res]
    ELSE /\ proc' = [proc EXCEPT ![p] = me]
         /\ reply' = reply

Result(me, result) == [me EXCEPT !.pc = "done", !.res = result]

(***************************************************************************)
(* Strings are sequences of characters.                                    *)
(***************************************************************************)
LowerAlnum == {"a", "b", "c", "e", "g", "h", "l", "m", "n", "o", "p", "s", "t", "x",
               "0", "1", "2", "3", "4", "5", "6", "7", "8", "9"}

\* Variant: the length and the alphabet are checked, the place of hyphens is not.
ValidLabelAnyHyphen(l) ==
    /\ Len(l) >= 3
    /\ Len(l) <= 30
    /\ \A i \in 1..Len(l) : l[i] \in LowerAlnum \cup {"-"}

\* /^[a-z0-9]+(?:-[a-z0-9]+)*$/ with .min(3) and .max(30)
ValidLabel(l) ==
    /\ Len(l) >= 3
    /\ Len(l) <= 30
    /\ \A i \in 1..Len(l) : l[i] \in LowerAlnum \cup {"-"}
    /\ l[1] # "-"
    /\ l[Len(l)] # "-"
    /\ \A i \in 1..(Len(l) - 1) : ~(l[i] = "-" /\ l[i + 1] = "-")

\* `${input.subdomain}.${domainToUse}`
FullSubdomain(label, dom) == label \o <<".">> \o dom

\* fullSubdomain.split('.')[0]
FirstDot(s) == IF \E i \in 1..Len(s) : s[i] = "."
               THEN CHOOSE i \in 1..Len(s) : s[i] = "." /\ \A j \in 1..(i - 1) : s[j] # "."
               ELSE Len(s) + 1

PanelUsername(s) == SubSeq(s, 1, FirstDot(s) - 1)

(***************************************************************************)
(* Store primitives.                                                       *)
(***************************************************************************)
\* update(ref(db, `users/${userId}/services/${serviceId}`), { status }):
\* update() creates the node when it does not exist.
UpdateStatus(svc, u, sid, st) ==
    [svc EXCEPT ![<<u, sid>>] = [@ EXCEPT !.exists = TRUE, !.status = st]]

\* query(ref(db, 'invoices'), orderByChild('serviceId'), equalTo(serviceId))
\* followed by Object.keys(invoiceData)[0]; 0 when the snapshot is empty.
FindInvoice(inv, sid) ==
    IF \E k \in 1..Len(inv) : inv[k].serviceId = sid
    THEN CHOOSE k \in 1..Len(inv) :
            /\ inv[k].serviceId = sid
            /\ \A j \in 1..(k - 1) : inv[j].serviceId # sid
    ELSE 0

\* Variant: the status is flipped instead of set.
FlipPaid(inv, k) == [inv EXCEPT ![k].status = IF @ = "Paid" THEN "Unpaid" ELSE "Paid"]

\* Variant: set() instead of update(), which replaces the whole record.
MarkPaidBySet(inv, k) == [inv EXCEPT ![k] = [userId |-> "", serviceId |-> 0, amount |-> NoPrice, status |-> "Paid"]]

\* update(ref(db, `invoices/${invoiceKey}`), { status: 'Paid' })
MarkPaid(inv, k) == [inv EXCEPT ![k].status = "Paid"]

\* Variant: only Active free services count against the limit.
HasActiveFreeService(svc, u) ==
    \E sid \in Sids : svc[<<u, sid>>].exists /\ svc[<<u, sid>>].price = 0 /\ svc[<<u, sid>>].status = "Active"

\* Object.values(services).some((service: any) => service.price === 0)
HasExistingFreeService(svc, u) ==
    \E sid \in Sids : svc[<<u, sid>>].exists /\ svc[<<u, sid>>].price = 0

(***************************************************************************)
(* orderService({ plan, userId, paymentMethod })                           *)
(***************************************************************************)
\* Variant: every new Service waits for payment.
AlwaysPending(price) == "Pending"

\* Variant: every new Invoice is written as Paid.
AlwaysPaid(price) == "Paid"

InitialStatus(price) == IF price = 0 THEN "Active" ELSE "Pending"

InitialInvoiceStatus(price) == IF price = 0 THEN "Paid" ELSE "Unpaid"

\* Variant: the arguments are used without being checked.
OrderBeginUnchecked(p, u, planId, price) ==
    /\ Free(p)
    /\ LET me == [Idle EXCEPT !.op = "order", !.u = u, !.planId = planId, !.price = price]
       IN Step(p, IF price = 0 /\ restrictions = "enabled" THEN [me EXCEPT !.pc = "o_check"]
                  ELSE [me EXCEPT !.pc = "o_service"])
    /\ UNCHANGED <<store, settings, nextKey>>

\* Validation and, for a free plan, the read of settings/restrictions.
OrderBegin(p, u, planId, price) ==
    /\ Free(p)
    /\ LET me == [Idle EXCEPT !.op = "order", !.u = u, !.planId = planId, !.price = price]
       IN Step(p, IF u = "" \/ planId = "" THEN Result(me, "InvalidRequest")
                  ELSE IF price = 0 /\ restrictions = "enabled" THEN [me EXCEPT !.pc = "o_check"]
                  ELSE [me EXCEPT !.pc = "o_service"])
    /\ UNCHANGED <<store, settings, nextKey>>

\* The read of users/{userId}/services and the limit check.
OrderCheck(p) ==
    /\ proc[p].op = "order"
    /\ proc[p].pc = "o_check"
    /\ Step(p, IF HasExistingFreeService(services, proc[p].u)
               THEN Result(proc[p], "LimitExceeded")
               ELSE [proc[p] EXCEPT !.pc = "o_service"])
    /\ UNCHANGED <<store, settings, nextKey>>

\* const serviceData = { ...planDetails, id, planId, orderDate, status }
ServiceData(planId, price) ==
    [exists |-> TRUE, planId |-> planId, price |-> price, status |-> InitialStatus(price),
     subdomain |-> NoString, cpanel |-> NoCpanel]

\* push(serviceRef) and set(newServiceRef, serviceData)
OrderWriteService(p) ==
    /\ proc[p].op = "order"
    /\ proc[p].pc = "o_service"
    /\ nextKey <= MaxServices
    /\ services' = [services EXCEPT ![<<proc[p].u, nextKey>>] = ServiceData(proc[p].planId, proc[p].price)]
    /\ nextKey' = nextKey + 1
    /\ Step(p, [proc[p] EXCEPT !.pc = "o_invoice", !.sid = nextKey])
    /\ UNCHANGED <<invoices, subdomains, pannelneed, settings>>

\* Variant: every Invoice is filed under the first Service key.
InvoiceDataFirstKey(u, sid, price) ==
    [userId |-> u, serviceId |-> 1, amount |-> price, status |-> InitialInvoiceStatus(price)]

\* const invoiceData = { userId, serviceId, amount: plan.price, status, ... }
InvoiceData(u, sid, price) ==
    [userId |-> u, serviceId |-> sid, amount |-> price, status |-> InitialInvoiceStatus(price)]

\* push(invoicesRef) and set(newInvoiceRef, invoiceData)
OrderWriteInvoice(p) ==
    /\ proc[p].op = "order"
    /\ proc[p].pc = "o_invoice"
    /\ invoices' = Append(invoices, InvoiceData(proc[p].u, proc[p].sid, proc[p].price))
    /\ Step(p, Result(proc[p], "ok"))
    /\ UNCHANGED <<services, subdomains, pannelneed, settings, nextKey>>

\* Variant: the failure removes the Service that was written.
OrderFailRollingBack(p) ==
    /\ proc[p].op = "order"
    /\ proc[p].pc = "o_invoice"
    /\ services' = [services EXCEPT ![<<proc[p].u, proc[p].sid>>] = NoService]
    /\ Step(p, Result(proc[p], "error"))
    /\ UNCHANGED <<invoices, subdomains, pannelneed, settings, nextKey>>

\* One of the reads of users/{userId} and settings/invoice, or the invoice
\* write, rejects: the action throws after the Service has been written.
OrderFail(p) ==
    /\ proc[p].op = "order"
    /\ proc[p].pc = "o_invoice"
    /\ Step(p, Result(proc[p], "error"))
    /\ UNCHANGED <<store, settings, nextKey>>

(***************************************************************************)
(* POST of the Stripe webhook route                                        *)
(***************************************************************************)
EventTypes == {"checkout.session.completed", "payment_intent.created"}
Signatures == {"valid", "invalid", "missing"}

\* Variant: the body is parsed without constructEvent's signature check.
VerdictWithoutSignature(st, sig, type, u, planId, sid) ==
    IF ~st.secretKey \/ ~st.webhookSecret THEN "500"
    ELSE IF type # "checkout.session.completed" THEN "200"
    ELSE IF u = "" \/ planId = "" \/ sid = 0 THEN "200"
    ELSE "process"

\* Variant: the session metadata is used without being checked.
VerdictWithoutMetadata(st, sig, type, u, planId, sid) ==
    IF ~st.secretKey \/ ~st.webhookSecret THEN "500"
    ELSE IF sig # "valid" THEN "400"
    ELSE IF type # "checkout.session.completed" THEN "200"
    ELSE "process"

\* Variant: every verified event is handled as a completed checkout.
VerdictWithoutType(st, sig, type, u, planId, sid) ==
    IF ~st.secretKey \/ ~st.webhookSecret THEN "500"
    ELSE IF sig # "valid" THEN "400"
    ELSE IF u = "" \/ planId = "" \/ sid = 0 THEN "200"
    ELSE "process"

\* getStripeSecrets(), constructEvent(body, sig, webhookSecret), the event
\* type and the session metadata: everything before the first store access.
WebhookVerdict(st, sig, type, u, planId, sid) ==
    IF ~st.secretKey \/ ~st.webhookSecret THEN "500"
    ELSE IF sig # "valid" THEN "400"
    ELSE IF type # "checkout.session.completed" THEN "200"
    ELSE IF u = "" \/ planId = "" \/ sid = 0 THEN "200"
    ELSE "process"

WebhookBegin(p, sig, type, u, planId, sid) ==
    /\ Free(p)
    /\ LET me == [Idle EXCEPT !.op = "webhook", !.u = u, !.planId = planId, !.sid = sid]
           v == WebhookVerdict(stripe, sig, type, u, planId, sid)
       IN Step(p, IF v = "process" THEN [me EXCEPT !.pc = "w_query"] ELSE Result(me, v))
    /\ UNCHANGED <<store, settings, nextKey>>

\* Variant: a delivery that finds no Invoice is an error.
WebhookQueryRequiringInvoice(p) ==
    /\ proc[p].op = "webhook"
    /\ proc[p].pc = "w_query"
    /\ LET k == FindInvoice(invoices, proc[p].sid)
       IN Step(p, IF k = 0 THEN Result(proc[p], "500") ELSE [proc[p] EXCEPT !.inv = k, !.pc = "w_invoice"])
    /\ UNCHANGED <<store, settings, nextKey>>

\* Variant: a delivery that finds the Invoice already Paid answers at once.
WebhookQuerySkippingPaid(p) ==
    /\ proc[p].op = "webhook"
    /\ proc[p].pc = "w_query"
    /\ LET k == FindInvoice(invoices, proc[p].sid)
       IN Step(p, IF k # 0 /\ invoices[k].status = "Paid" THEN Result(proc[p], "200")
                  ELSE [proc[p] EXCEPT !.inv = k, !.pc = IF k = 0 THEN "w_service" ELSE "w_invoice"])
    /\ UNCHANGED <<store, settings, nextKey>>

\* get(invoicesQuery)
WebhookQuery(p) ==
    /\ proc[p].op = "webhook"
    /\ proc[p].pc = "w_query"
    /\ LET k == FindInvoice(invoices, proc[p].sid)
       IN Step(p, [proc[p] EXCEPT !.inv = k, !.pc = IF k = 0 THEN "w_service" ELSE "w_invoice"])
    /\ UNCHANGED <<store, settings, nextKey>>

\* update(invoiceRef, { status: 'Paid' })
WebhookUpdateInvoice(p) ==
    /\ proc[p].op = "webhook"
    /\ proc[p].pc = "w_invoice"
    /\ invoices' = MarkPaid(invoices, proc[p].inv)
    /\ Step(p, [proc[p] EXCEPT !.pc = "w_service"])
    /\ UNCHANGED <<services, subdomains, pannelneed, settings, nextKey>>

\* update(serviceRef, { status: 'Active' }) and the { received: true } answer
WebhookUpdateService(p) ==
    /\ proc[p].op = "webhook"
    /\ proc[p].pc = "w_service"
    /\ services' = UpdateStatus(services, proc[p].u, proc[p].sid, "Active")
    /\ Step(p, Result(proc[p], "200"))
    /\ UNCHANGED <<invoices, subdomains, pannelneed, settings, nextKey>>

\* catch (dbError): a store operation rejects and the handler answers 500.
WebhookDbFail(p) ==
    /\ proc[p].op = "webhook"
    /\ proc[p].pc \in {"w_query", "w_invoice", "w_service"}
    /\ Step(p, Result(proc[p], "500"))
    /\ UNCHANGED <<store, settings, nextKey>>

\* One delivery of a verified checkout.session.completed event with its
\* metadata, run from the first store access to the answer with no store
\* failure.
WebhookRun(svc, inv, u, sid) ==
    LET k == FindInvoice(inv, sid)
    IN [invoices |-> IF k = 0 THEN inv ELSE MarkPaid(inv, k),
        services |-> UpdateStatus(svc, u, sid, "Active"),
        res |-> "200"]

(***************************************************************************)
(* updateServiceStatus(userId, serviceId, status)                          *)
(***************************************************************************)
\* Validation; the update of the Service is sent and awaited.
AdminBegin(p, u, sid, st) ==
    /\ Free(p)
    /\ LET me == [Idle EXCEPT !.op = "admin", !.u = u, !.sid = sid, !.st = st]
       IN Step(p, IF u = "" \/ sid = 0 THEN Result(me, "InvalidRequest") ELSE [me EXCEPT !.pc = "a_service"])
    /\ UNCHANGED <<store, settings, nextKey>>

\* Variant: a status other than Active also sets the Invoice back to Unpaid.
AdminUpdateServiceUnpaying(p) ==
    /\ proc[p].op = "admin"
    /\ proc[p].pc = "a_service"
    /\ services' = UpdateStatus(services, proc[p].u, proc[p].sid, proc[p].st)
    /\ invoices' = IF proc[p].st = "Active" \/ FindInvoice(invoices, proc[p].sid) = 0 THEN invoices
                   ELSE [invoices EXCEPT ![FindInvoice(invoices, proc[p].sid)].status = "Unpaid"]
    /\ Step(p, IF proc[p].st = "Active" THEN [proc[p] EXCEPT !.pc = "a_query"] ELSE Result(proc[p], "ok"))
    /\ UNCHANGED <<subdomains, pannelneed, settings, nextKey>>

\* update(serviceRef, { status }) reaches the store
AdminUpdateService(p) ==
    /\ proc[p].op = "admin"
    /\ proc[p].pc = "a_service"
    /\ services' = UpdateStatus(services, proc[p].u, proc[p].sid, proc[p].st)
    /\ Step(p, IF proc[p].st = "Active" THEN [proc[p] EXCEPT !.pc = "a_query"] ELSE Result(proc[p], "ok"))
    /\ UNCHANGED <<invoices, subdomains, pannelneed, settings, nextKey>>

\* get(invoicesQuery)
AdminQuery(p) ==
    /\ proc[p].op = "admin"
    /\ proc[p].pc = "a_query"
    /\ LET k == FindInvoice(invoices, proc[p].sid)
       IN Step(p, IF k = 0 THEN Result(proc[p], "ok") ELSE [proc[p] EXCEPT !.inv = k, !.pc = "a_invoice"])
    /\ UNCHANGED <<store, settings, nextKey>>

\* update(ref(db, `invoices/${invoiceKey}`), { status: 'Paid' })
AdminUpdateInvoice(p) ==
    /\ proc[p].op = "admin"
    /\ proc[p].pc = "a_invoice"
    /\ invoices' = MarkPaid(invoices, proc[p].inv)
    /\ Step(p, Result(proc[p], "ok"))
    /\ UNCHANGED <<services, subdomains, pannelneed, settings, nextKey>>

(***************************************************************************)
(* createSubdomain({ userId, subdomain, serviceId })                       *)
(***************************************************************************)
\* CreateSubdomainInputSchema.safeParse(input) and the read of settings/domain
SubdomainBegin(p, label, u, sid) ==
    /\ Free(p)
    /\ LET me == [Idle EXCEPT !.op = "subdomain", !.u = u, !.sid = sid, !.label = label]
       IN Step(p, IF ~ValidLabel(label) \/ u = "" THEN Result(me, "InvalidLabel")
                  ELSE IF domain = NoString THEN Result(me, "NotConfigured")
                  ELSE [me EXCEPT !.pc = "s_query", !.dom = domain])
    /\ UNCHANGED <<store, settings, nextKey>>

\* Variant: the query is made on the owner as well as on the name.
SubdomainTakenByOther(subs, full) == \E k \in 1..Len(subs) : subs[k].subdomain = full /\ subs[k].userId = ""

\* query(subdomainsRef, orderByChild('subdomain'), equalTo(fullSubdomain))
SubdomainTaken(subs, full) == \E k \in 1..Len(subs) : subs[k].subdomain = full

\* get(existingSubdomainQuery)
SubdomainQuery(p) ==
    /\ proc[p].op = "subdomain"
    /\ proc[p].pc = "s_query"
    /\ Step(p, IF SubdomainTaken(subdomains, FullSubdomain(proc[p].label, proc[p].dom))
               THEN Result(proc[p], "AlreadyTaken")
               ELSE [proc[p] EXCEPT !.pc = "s_api"])
    /\ UNCHANGED <<store, settings, nextKey>>

\* What the fetch of the provisioning API can come to: it throws, or it
\* answers with a 2xx status or not and a body that is not JSON ("text") or
\* is JSON with the status flag 1 or another value.
ApiResponses == [thrown : BOOLEAN, httpOk : BOOLEAN, body : {"text", "status1", "status0"}]

\* Variant: any body that parses as JSON counts as a success.
CreateOnAnyJson(r) == ~r.thrown /\ r.httpOk /\ r.body # "text"

\* createSubdomainOnServer({ subdomain, rootDomain }).success
CreateSubdomainOnServer(r) ==
    IF r.thrown THEN FALSE
    ELSE IF ~r.httpOk THEN FALSE
    ELSE IF r.body = "text" THEN FALSE
    ELSE r.body = "status1"

\* createSubdomainOnServer: the answer of the external provisioning API,
\* then crypto.randomBytes for the password and the token.
SubdomainApi(p, ok, secret) ==
    /\ proc[p].op = "subdomain"
    /\ proc[p].pc = "s_api"
    /\ Step(p, IF ok THEN [proc[p] EXCEPT !.pc = "s_record", !.secret = secret]
               ELSE Result(proc[p], "ProvisioningFailed"))
    /\ UNCHANGED <<store, settings, nextKey>>

\* push(subdomainsRef) and set(newSubdomainRef, {...})
SubdomainWriteRecord(p) ==
    /\ proc[p].op = "subdomain"
    /\ proc[p].pc = "s_record"
    /\ Len(subdomains) < MaxSubs
    /\ subdomains' = Append(subdomains,
            [userId |-> proc[p].u, subdomain |-> FullSubdomain(proc[p].label, proc[p].dom),
             serviceId |-> proc[p].sid])
    /\ Step(p, IF proc[p].sid # 0 THEN [proc[p] EXCEPT !.pc = "s_service"] ELSE Result(proc[p], "ok"))
    /\ UNCHANGED <<services, invoices, pannelneed, settings, nextKey>>

\* update(serviceToUpdateRef, { subdomain, status: 'Active', cpanel })
LinkService(svc, u, sid, full, label, secret) ==
    [svc EXCEPT ![<<u, sid>>] =
        [@ EXCEPT !.exists = TRUE, !.subdomain = full, !.status = "Active",
                  !.cpanel = [username |-> label, secret |-> secret]]]

SubdomainUpdateService(p) ==
    /\ proc[p].op = "subdomain"
    /\ proc[p].pc = "s_service"
    /\ services' = LinkService(services, proc[p].u, proc[p].sid,
                               FullSubdomain(proc[p].label, proc[p].dom), proc[p].label, proc[p].secret)
    /\ Step(p, Result(proc[p], "ok"))
    /\ UNCHANGED <<invoices, subdomains, pannelneed, settings, nextKey>>

\* handleSubdomainCreation(prevState, formData): subdomainSchema.safeParse,
\* then createSubdomain with the validated fields.
HandleSubdomainCreation(p, label, u, sid) ==
    IF ~ValidLabel(label) \/ u = ""
    THEN /\ Free(p)
         /\ Step(p, Result([Idle EXCEPT !.op = "subdomain", !.u = u, !.sid = sid, !.label = label],
                            "ValidationFailed"))
         /\ UNCHANGED <<store, settings, nextKey>>
    ELSE SubdomainBegin(p, label, u, sid)

(***************************************************************************)
(* handleAquaPanelLogin(userId, serviceId)                                 *)
(***************************************************************************)
\* The checks made on the arguments and on the Service that was read.
LoginVerdict(u, sid, svc) ==
    IF u = "" \/ sid = 0 THEN "NotEligible"
    ELSE IF ~svc[<<u, sid>>].exists THEN "NotEligible"
    ELSE IF svc[<<u, sid>>].subdomain = NoString THEN "NotEligible"
    ELSE "issue"

\* Validation, get(serviceRef), the checks and crypto.randomBytes
LoginBegin(p, u, sid, secret) ==
    /\ Free(p)
    /\ LET me == [Idle EXCEPT !.op = "login", !.u = u, !.sid = sid]
           v == LoginVerdict(u, sid, services)
       IN Step(p, IF v = "issue"
                  THEN [me EXCEPT !.pc = "l_write", !.secret = secret,
                                  !.label = PanelUsername(services[<<u, sid>>].subdomain)]
                  ELSE Result(me, v))
    /\ UNCHANGED <<store, settings, nextKey>>

\* Variant: push() under pannelneed instead of set() at the username.
KeepCredentialHistory(pn, cred) == Append(pn, cred)

\* set(ref(db, `pannelneed/${username}`), {...})
SetCredential(pn, cred) ==
    IF \E k \in 1..Len(pn) : pn[k].username = cred.username
    THEN [k \in 1..Len(pn) |-> IF pn[k].username = cred.username THEN cred ELSE pn[k]]
    ELSE Append(pn, cred)

LoginWrite(p) ==
    /\ proc[p].op = "login"
    /\ proc[p].pc = "l_write"
    /\ pannelneed' = SetCredential(pannelneed,
            [username |-> proc[p].label, secret |-> proc[p].secret,
             userId |-> proc[p].u, serviceId |-> proc[p].sid])
    /\ Step(p, Result(proc[p], "ok"))
    /\ UNCHANGED <<services, invoices, subdomains, settings, nextKey>>

\* The set() of the credentials rejects: { success: false }
LoginFail(p) ==
    /\ proc[p].op = "login"
    /\ proc[p].pc = "l_write"
    /\ Step(p, Result(proc[p], "error"))
    /\ UNCHANGED <<store, settings, nextKey>>

(***************************************************************************)
(* createStripeCheckoutSession({ planId, userId, serviceId }) and the UPI  *)
(* link of the checkout form                                               *)
(***************************************************************************)
\* settingsSnap.exists(): the node is there once a save has gone through.
StripeExists(st) == st.secretKey /\ st.webhookSecret

\* get(settingsRef) and the check that Stripe is enabled
CheckoutBegin(p, planId, u, sid) ==
    /\ Free(p)
    /\ LET me == [Idle EXCEPT !.op = "checkout", !.u = u, !.planId = planId, !.sid = sid]
       IN Step(p, IF ~StripeExists(stripe) \/ ~stripe.enabled THEN Result(me, "error")
                  ELSE [me EXCEPT !.pc = "c_plan"])
    /\ UNCHANGED <<store, settings, nextKey>>

\* get(planRef): the price the session will charge, unit_amount: plan.price * 100
CheckoutReadPlan(p) ==
    /\ proc[p].op = "checkout"
    /\ proc[p].pc = "c_plan"
    /\ Step(p, IF proc[p].planId \notin DOMAIN plans THEN Result(proc[p], "error")
               ELSE [proc[p] EXCEPT !.pc = "c_user", !.price = plans[proc[p].planId] * 100])
    /\ UNCHANGED <<store, settings, nextKey>>

\* get(userRef)
CheckoutReadUser(p) ==
    /\ proc[p].op = "checkout"
    /\ proc[p].pc = "c_user"
    /\ Step(p, IF proc[p].u \notin Users THEN Result(proc[p], "error")
               ELSE [proc[p] EXCEPT !.pc = "c_stripe"])
    /\ UNCHANGED <<store, settings, nextKey>>

\* Variant: the session is created and the Invoice is marked Paid at once.
CheckoutCreateMarkingPaid(p, ok) ==
    /\ proc[p].op = "checkout"
    /\ proc[p].pc = "c_stripe"
    /\ Step(p, Result(proc[p], IF ok THEN "session" ELSE "error"))
    /\ invoices' = IF FindInvoice(invoices, proc[p].sid) = 0 THEN invoices
                   ELSE MarkPaid(invoices, FindInvoice(invoices, proc[p].sid))
    /\ UNCHANGED <<services, subdomains, pannelneed, settings, nextKey>>

\* stripe.checkout.sessions.create({...}): { sessionId }, or it throws and
\* the catch answers { error }.
CheckoutCreate(p, ok) ==
    /\ proc[p].op = "checkout"
    /\ proc[p].pc = "c_stripe"
    /\ Step(p, Result(proc[p], IF ok THEN "session" ELSE "error"))
    /\ UNCHANGED <<store, settings, nextKey>>

\* catch (error): a read of the plan or of the user rejects.
CheckoutFail(p) ==
    /\ proc[p].op = "checkout"
    /\ proc[p].pc \in {"c_plan", "c_user"}
    /\ Step(p, Result(proc[p], "error"))
    /\ UNCHANGED <<store, settings, nextKey>>

\* const upiLink = gateways?.upi?.enabled && gateways.upi.upiId && order ? `upi://pay?...` : '#'
UpiLink(upiEnabled, upiId, order) ==
    IF upiEnabled /\ upiId /\ order # 0 THEN "upi://pay" ELSE "#"

\* The checkout form renders the link from the gateway settings it loaded
\* and from the order it holds (0: no order placed yet).
GenerateUpiLink(upiEnabled, upiId, u, order) ==
    /\ order # 0 => services[<<u, order>>].exists
    /\ reply' = [op |-> "upi", res |-> UpiLink(upiEnabled, upiId, order)]
    /\ UNCHANGED <<store, settings, nextKey, proc>>

(***************************************************************************)
(* Settings                                                                *)
(***************************************************************************)
\* saveRestrictionSettings({ freeUserLimitEnabled })
SaveRestrictionSettings(enabled) ==
    /\ restrictions' = IF enabled THEN "enabled" ELSE "disabled"
    /\ UNCHANGED <<store, domain, stripe, plans, nextKey, proc, reply>>

\* saveDomainSettings({ domain }): the schema rejects an empty domain.
SaveDomainSettings(d) ==
    /\ d # NoString
    /\ domain' = d
    /\ UNCHANGED <<store, restrictions, stripe, plans, nextKey, proc, reply>>

\* saveStripeSettings(data): a secret left blank keeps the stored one, and
\* set() throws on a value that holds an undefined property.
SaveStripeSettings(enabled, secretKey, webhookSecret) ==
    /\ LET dataToSave == [enabled |-> enabled,
                          secretKey |-> secretKey \/ stripe.secretKey,
                          webhookSecret |-> webhookSecret \/ stripe.webhookSecret]
       IN stripe' = IF dataToSave.secretKey /\ dataToSave.webhookSecret THEN dataToSave ELSE stripe
    /\ UNCHANGED <<store, restrictions, domain, plans, nextKey, proc, reply>>

\* The administrator edits the price of a plan.
EditPlan(id, price) ==
    /\ plans' = [plans EXCEPT ![id] = price]
    /\ UNCHANGED <<store, restrictions, domain, stripe, nextKey, proc, reply>>

(***************************************************************************)
(* Specifications                                                          *)
(***************************************************************************)
Init ==
    /\ services = [k \in ServiceKeys |-> NoService]
    /\ invoices = <<>>
    /\ subdomains = <<>>
    /\ pannelneed = <<>>
    /\ restrictions = "absent"
    /\ domain = NoString
    /\ stripe = [enabled |-> FALSE, secretKey |-> FALSE, webhookSecret |-> FALSE]
    /\ plans = [id \in PlanIds |-> PaidPrice]
    /\ nextKey = 1
    /\ proc = [p \in Procs |-> Idle]
    /\ reply = NoReply

\* Every operation of the workflow, one request at a time: the orders of
\* one customer and the operations on the first Service ordered.
Next ==
    \/ \E price \in Prices : OrderBegin(1, "u1", "p1", price)
    \/ OrderCheck(1)
    \/ OrderWriteService(1)
    \/ OrderWriteInvoice(1)
    \/ OrderFail(1)
    \/ WebhookBegin(1, "valid", "checkout.session.completed", "u1", "p1", 1)
    \/ WebhookQuery(1)
    \/ WebhookUpdateInvoice(1)
    \/ WebhookUpdateService(1)
    \/ \E st \in {"Active", "Suspended"} : AdminBegin(1, "u1", 1, st)
    \/ AdminUpdateService(1)
    \/ AdminQuery(1)
    \/ AdminUpdateInvoice(1)
    \/ \E sid \in {0, 1} : SubdomainBegin(1, LabelShop, "u1", sid)
    \/ SubdomainQuery(1)
    \/ \E ok \in BOOLEAN : SubdomainApi(1, ok, 1)
    \/ SubdomainWriteRecord(1)
    \/ SubdomainUpdateService(1)
    \/ LoginBegin(1, "u1", 1, 1)
    \/ LoginWrite(1)
    \/ SaveRestrictionSettings(TRUE)
    \/ SaveDomainSettings(DomainCom)
    \/ SaveStripeSettings(TRUE, TRUE, TRUE)
    \/ \E price \in Prices : EditPlan("p1", price)

Spec == Init /\ [][Next]_vars

\* Orders of two customers under the free-plan restriction, one request at
\* a time, with the administrator changing the restriction and the status
\* of services.
NextOrder ==
    \/ \E u \in Users, price \in Prices : OrderBegin(1, u, "p1", price)
    \/ OrderCheck(1)
    \/ OrderWriteService(1)
    \/ OrderWriteInvoice(1)
    \/ \E sid \in Sids : AdminBegin(1, "u1", sid, "Suspended")
    \/ AdminUpdateService(1)
    \/ \E enabled \in BOOLEAN : SaveRestrictionSettings(enabled)

SpecOrder == Init /\ [][NextOrder]_vars

\* Orders alone: no checkout session, no webhook, no administrator.
NextFree ==
    \/ \E p \in Procs, u \in Users, price \in Prices : OrderBegin(p, u, "p1", price)
    \/ \E p \in Procs : OrderCheck(p)
    \/ \E p \in Procs : OrderWriteService(p)
    \/ \E p \in Procs : OrderWriteInvoice(p)
    \/ \E p \in Procs : OrderFail(p)
    \/ \E enabled \in BOOLEAN : SaveRestrictionSettings(enabled)

SpecFree == Init /\ [][NextFree]_vars

\* Orders and deliveries of the payment webhook, concurrently.
NextPayment ==
    \/ \E p \in Procs : OrderBegin(p, "u1", "p1", PaidPrice)
    \/ \E p \in Procs : OrderWriteService(p)
    \/ \E p \in Procs : OrderWriteInvoice(p)
    \/ \E p \in Procs, sid \in Sids : WebhookBegin(p, "valid", "checkout.session.completed", "u1", "p1", sid)
    \/ \E p \in Procs : WebhookQuery(p)
    \/ \E p \in Procs : WebhookUpdateInvoice(p)
    \/ \E p \in Procs : WebhookUpdateService(p)
    \/ \E p \in Procs : WebhookDbFail(p)
    \/ SaveStripeSettings(TRUE, TRUE, TRUE)

SpecPayment == Init /\ [][NextPayment]_vars

\* Deliveries of every kind to the webhook route, one request at a time: a
\* delivery is a completed checkout, or has things wrong with it.
WebhookRequests ==
    [sig : Signatures, type : EventTypes, u : {"u1", ""}, planId : PlanInputs, sid : SidInputs]

NextDelivery ==
    \/ OrderBegin(1, "u1", "p1", PaidPrice)
    \/ OrderWriteService(1)
    \/ OrderWriteInvoice(1)
    \/ \E r \in WebhookRequests : WebhookBegin(1, r.sig, r.type, r.u, r.planId, r.sid)
    \/ WebhookQuery(1)
    \/ WebhookUpdateInvoice(1)
    \/ WebhookUpdateService(1)
    \/ WebhookDbFail(1)
    \/ \E secretKey \in BOOLEAN, webhookSecret \in BOOLEAN : SaveStripeSettings(TRUE, secretKey, webhookSecret)

SpecDelivery == Init /\ [][NextDelivery]_vars

\* Concurrent subdomain creation for the services of one customer.
NextSubdomain ==
    \/ \E p \in Procs : OrderBegin(p, "u1", "p1", PaidPrice)
    \/ \E p \in Procs : OrderWriteService(p)
    \/ \E p \in Procs : OrderWriteInvoice(p)
    \/ \E p \in Procs, label \in GoodLabels, sid \in SidInputs : SubdomainBegin(p, label, "u1", sid)
    \/ \E p \in Procs : SubdomainQuery(p)
    \/ \E p \in Procs, ok \in BOOLEAN : SubdomainApi(p, ok, 1)
    \/ \E p \in Procs : SubdomainWriteRecord(p)
    \/ \E p \in Procs : SubdomainUpdateService(p)
    \/ SaveDomainSettings(DomainCom)

SpecSubdomain == Init /\ [][NextSubdomain]_vars

\* Provisioning and panel logins, one request at a time: orders, subdomain
\* creation, the administrator's status changes and panel logins.
NextPanel ==
    \/ \E price \in Prices : OrderBegin(1, "u1", "p1", price)
    \/ OrderWriteService(1)
    \/ OrderWriteInvoice(1)
    \/ \E sid \in Sids, st \in {"Active", "Suspended"} : AdminBegin(1, "u1", sid, st)
    \/ AdminUpdateService(1)
    \/ AdminQuery(1)
    \/ AdminUpdateInvoice(1)
    \/ \E label \in {LabelShop, LabelMySite}, sid \in SidInputs : SubdomainBegin(1, label, "u1", sid)
    \/ SubdomainQuery(1)
    \/ \E ok \in BOOLEAN : SubdomainApi(1, ok, 1)
    \/ SubdomainWriteRecord(1)
    \/ SubdomainUpdateService(1)
    \/ \E u \in UserInputs, sid \in SidInputs, secret \in Secrets : LoginBegin(1, u, sid, secret)
    \/ LoginWrite(1)
    \/ LoginFail(1)
    \/ SaveDomainSettings(DomainCom)

SpecPanel == Init /\ [][NextPanel]_vars

\* Checkout, one request at a time: paid orders, checkout sessions and UPI
\* links for them, with the administrator changing the Stripe settings and
\* the plan price.
NextCheckout ==
    \/ OrderBegin(1, "u1", "p1", PaidPrice)
    \/ OrderWriteService(1)
    \/ OrderWriteInvoice(1)
    \/ \E planId \in PlanInputs, u \in UserInputs, sid \in Sids : CheckoutBegin(1, planId, u, sid)
    \/ CheckoutReadPlan(1)
    \/ CheckoutReadUser(1)
    \/ \E ok \in BOOLEAN : CheckoutCreate(1, ok)
    \/ CheckoutFail(1)
    \/ \E upiEnabled \in BOOLEAN, upiId \in BOOLEAN, order \in SidInputs : GenerateUpiLink(upiEnabled, upiId, "u1", order)
    \/ \E enabled \in BOOLEAN : SaveStripeSettings(enabled, TRUE, TRUE)
    \/ \E price \in Prices \cup {RaisedPrice} : EditPlan("p1", price)

SpecCheckout == Init /\ [][NextCheckout]_vars

\* A webhook delivery is in flight for the Service.
WebhookInFlight(u, sid) ==
    \E q \in Procs : proc[q].op = "webhook" /\ proc[q].u = u /\ proc[q].sid = sid

\* The payment of the first Service of u1 reconciled from both sides: paid
\* orders, webhook deliveries for the Service once its order has returned
\* (the checkout session is created after orderService), and calls of
\* updateServiceStatus for the same Service that arrive while a delivery is
\* in flight.
NextReconcile ==
    \/ \E p \in Procs : OrderBegin(p, "u1", "p1", PaidPrice)
    \/ \E p \in Procs : OrderWriteService(p)
    \/ \E p \in Procs : OrderWriteInvoice(p)
    \/ \E p \in Procs :
            FindInvoice(invoices, 1) # 0 /\ WebhookBegin(p, "valid", "checkout.session.completed", "u1", "p1", 1)
    \/ \E p \in Procs : WebhookQuery(p)
    \/ \E p \in Procs : WebhookUpdateInvoice(p)
    \/ \E p \in Procs : WebhookUpdateService(p)
    \/ \E p \in Procs, st \in {"Active", "Suspended"} :
            WebhookInFlight("u1", 1) /\ AdminBegin(p, "u1", 1, st)
    \/ \E p \in Procs : AdminUpdateService(p)
    \/ \E p \in Procs : AdminQuery(p)
    \/ \E p \in Procs : AdminUpdateInvoice(p)
    \/ SaveStripeSettings(TRUE, TRUE, TRUE)

SpecReconcile == Init /\ [][NextReconcile]_vars

\* Subdomain requests with labels of every kind, through the form action
\* and through createSubdomain itself, one request at a time.
NextLabel ==
    \/ OrderBegin(1, "u1", "p1", PaidPrice)
    \/ OrderWriteService(1)
    \/ OrderWriteInvoice(1)
    \/ \E label \in LabelInputs, u \in {"u1", ""}, sid \in {0, 1} : SubdomainBegin(1, label, u, sid)
    \/ \E label \in LabelInputs, u \in {"u1", ""}, sid \in {0, 1} : HandleSubdomainCreation(1, label, u, sid)
    \/ SubdomainQuery(1)
    \/ \E r \in ApiResponses : SubdomainApi(1, CreateSubdomainOnServer(r), 1)
    \/ SubdomainWriteRecord(1)
    \/ SubdomainUpdateService(1)
    \/ SaveDomainSettings(DomainCom)

SpecLabel == Init /\ [][NextLabel]_vars

\* Panel logins, one call at a time, for the services of one customer once
\* they have their subdomains.
NextLogin ==
    \/ OrderBegin(1, "u1", "p1", PaidPrice)
    \/ OrderWriteService(1)
    \/ OrderWriteInvoice(1)
    \/ \E label \in GoodLabels, sid \in Sids : SubdomainBegin(1, label, "u1", sid)
    \/ SubdomainQuery(1)
    \/ \E r \in ApiResponses : SubdomainApi(1, CreateSubdomainOnServer(r), 1)
    \/ SubdomainWriteRecord(1)
    \/ SubdomainUpdateService(1)
    \/ \E sid \in Sids, secret \in Secrets : LoginBegin(1, "u1", sid, secret)
    \/ LoginWrite(1)
    \/ LoginFail(1)
    \/ SaveDomainSettings(DomainCom)

SpecLogin == Init /\ [][NextLogin]_vars

\* Orders with arguments of every kind, one request at a time.
NextRequest ==
    \/ \E u \in {"u1", ""}, planId \in PlanInputs, price \in Prices : OrderBegin(1, u, planId, price)
    \/ OrderCheck(1)
    \/ OrderWriteService(1)
    \/ OrderWriteInvoice(1)
    \/ OrderFail(1)
    \/ \E enabled \in BOOLEAN : SaveRestrictionSettings(enabled)

SpecRequest == Init /\ [][NextRequest]_vars

\* The gateway delivers the completed-checkout event of a Service of u1
\* that has been ordered.
Deliver(sid) ==
    /\ FindInvoice(invoices, sid) # 0
    /\ WebhookBegin(1, "valid", "checkout.session.completed", "u1", "p1", sid)

\* Paid orders and the deliveries of their payment events, one request at a
\* time, with store failures in the webhook handler.
NextRetry ==
    \/ nextKey <= MaxServices /\ OrderBegin(1, "u1", "p1", PaidPrice)
    \/ OrderWriteService(1)
    \/ OrderWriteInvoice(1)
    \/ \E sid \in Sids : Deliver(sid)
    \/ WebhookQuery(1)
    \/ WebhookUpdateInvoice(1)
    \/ WebhookUpdateService(1)
    \/ WebhookDbFail(1)
    \/ \E enabled \in BOOLEAN : SaveStripeSettings(enabled, TRUE, TRUE)

\* A handler that can go on does, the gateway keeps redelivering the event
\* of each Service, and for no Service does a store operation of the webhook
\* handler fail for ever.
FairRetry ==
    /\ WF_vars(OrderWriteService(1))
    /\ WF_vars(OrderWriteInvoice(1))
    /\ SF_vars(SaveStripeSettings(TRUE, TRUE, TRUE))
    /\ \A sid \in Sids :
        /\ SF_vars(Deliver(sid))
        /\ SF_vars(proc[1].sid = sid /\ WebhookQuery(1))
        /\ SF_vars(proc[1].sid = sid /\ WebhookUpdateInvoice(1))
        /\ SF_vars(proc[1].sid = sid /\ WebhookUpdateService(1))

SpecRetry == Init /\ [][NextRetry]_vars /\ FairRetry

\* The administrator's status changes, one request at a time, on services
\* that were ordered and may have been paid for through the webhook.
NextAdmin ==
    \/ \E price \in Prices : OrderBegin(1, "u1", "p1", price)
    \/ OrderWriteService(1)
    \/ OrderWriteInvoice(1)
    \/ \E sid \in Sids : Deliver(sid)
    \/ WebhookQuery(1)
    \/ WebhookUpdateInvoice(1)
    \/ WebhookUpdateService(1)
    \/ \E sid \in Sids, st \in ServiceStatuses : AdminBegin(1, "u1", sid, st)
    \/ AdminUpdateService(1)
    \/ AdminQuery(1)
    \/ AdminUpdateInvoice(1)
    \/ SaveStripeSettings(TRUE, TRUE, TRUE)

SpecAdmin == Init /\ [][NextAdmin]_vars

\* Panel logins for services provisioned under the same label while the
\* administrator changes the root domain, one request at a time.
NextDomain ==
    \/ OrderBegin(1, "u1", "p1", PaidPrice)
    \/ OrderWriteService(1)
    \/ OrderWriteInvoice(1)
    \/ \E sid \in Sids : SubdomainBegin(1, LabelShop, "u1", sid)
    \/ SubdomainQuery(1)
    \/ \E ok \in BOOLEAN : SubdomainApi(1, ok, 1)
    \/ SubdomainWriteRecord(1)
    \/ SubdomainUpdateService(1)
    \/ \E sid \in Sids, secret \in Secrets : LoginBegin(1, "u1", sid, secret)
    \/ LoginWrite(1)
    \/ LoginFail(1)
    \/ \E d \in {DomainCom, DomainNet} : SaveDomainSettings(d)

SpecDomain == Init /\ [][NextDomain]_vars

(***************************************************************************)
(* Properties                                                              *)
(***************************************************************************)
AnswerOf(op, res) == [op |-> op, res |-> res]

\* C1: when settings/restrictions.freeUserLimitEnabled is true and the user
\* already owns a Service of price 0, whatever its status, a zero-price
\* orderService goes through the limit check and fails there with the limit
\* error, writing no Service and no Invoice.
C1_FreeLimitRejects ==
    [][\A p \in Procs :
        /\ (/\ proc[p] = Idle
            /\ proc'[p].op = "order"
            /\ proc'[p].price = 0
            /\ restrictions = "enabled")
           => proc'[p].pc = "o_check"
        /\ (/\ proc[p].op = "order"
            /\ proc[p].pc = "o_check"
            /\ proc'[p] # proc[p]
            /\ \E sid \in Sids : services[<<proc[p].u, sid>>].exists /\ services[<<proc[p].u, sid>>].price = 0)
           => /\ proc'[p] = Idle
              /\ reply' = AnswerOf("order", "LimitExceeded")
              /\ services' = services
              /\ invoices' = invoices
              /\ nextKey' = nextKey]_vars

\* A free order was refused while the customer's free Service was suspended.
C1_Witness ==
    /\ reply = AnswerOf("order", "LimitExceeded")
    /\ restrictions = "enabled"
    /\ \E sid \in Sids : services[<<"u1", sid>>].price = 0 /\ services[<<"u1", sid>>].status = "Suspended"

\* C2: delivering the same verified successful-payment webhook twice leaves
\* Services and Invoices as one delivery does (Service Active, Invoice Paid),
\* and the second delivery is answered 200.
C2_WebhookIdempotent ==
    \A u \in Users, sid \in Sids :
        LET once == WebhookRun(services, invoices, u, sid)
            twice == WebhookRun(once.services, once.invoices, u, sid)
            k == FindInvoice(invoices, sid)
        IN /\ twice.services = once.services
           /\ twice.invoices = once.invoices
           /\ twice.res = "200"
           /\ once.services[<<u, sid>>].status = "Active"
           /\ k # 0 => once.invoices[k].status = "Paid"

\* A second delivery is about to write a Service that the first delivery,
\* already answered 200, made Active with its Invoice Paid.
C2_Witness ==
    /\ reply = AnswerOf("webhook", "200")
    /\ \E p \in Procs :
        /\ proc[p].op = "webhook"
        /\ proc[p].pc = "w_service"
        /\ proc[p].inv # 0
        /\ invoices[proc[p].inv].status = "Paid"
        /\ services[<<proc[p].u, proc[p].sid>>].status = "Active"
        /\ services[<<proc[p].u, proc[p].sid>>].price = PaidPrice

\* C3: no two records under subdomains have the same fully-qualified name,
\* whatever the interleaving of concurrent createSubdomain requests.
C3_UniqueSubdomainName ==
    \A i, j \in 1..Len(subdomains) : i # j => subdomains[i].subdomain # subdomains[j].subdomain

\* C4: the amount of an Invoice is the plan price passed to orderService,
\* and no step of any operation changes the amount of an existing Invoice.
C4_InvoiceAmountFixed ==
    [][/\ Len(invoices') >= Len(invoices)
       /\ \A k \in 1..Len(invoices) : invoices'[k].amount = invoices[k].amount
       /\ Len(invoices') # Len(invoices) =>
            \E p \in Procs :
                /\ proc[p].op = "order"
                /\ proc'[p] = Idle
                /\ Len(invoices') = Len(invoices) + 1
                /\ invoices'[Len(invoices')].amount = proc[p].price
                /\ invoices'[Len(invoices')].serviceId = proc[p].sid]_vars

\* The plan was edited after the order and the Invoice was paid by a
\* webhook: the Invoice still carries the price of the order.
C4_Witness ==
    \E k \in 1..Len(invoices) :
        /\ invoices[k].amount = PaidPrice
        /\ invoices[k].status = "Paid"
        /\ plans["p1"] = 0
        /\ services[<<invoices[k].userId, invoices[k].serviceId>>].subdomain # NoString

\* A step of updateServiceStatus.
AdminStep ==
    \E p \in Procs :
        \/ \E u \in UserInputs, sid \in SidInputs, st \in ServiceStatuses : AdminBegin(p, u, sid, st)
        \/ AdminUpdateService(p)
        \/ AdminQuery(p)
        \/ AdminUpdateInvoice(p)

\* C5: with no webhook delivered, a Service ordered at a price above 0 stays
\* Pending and its Invoice Unpaid in every step that is not a step of the
\* administrator's updateServiceStatus.
C5_PendingUntilAdmin ==
    [][\A k \in 1..Len(invoices) :
        LET key == <<invoices[k].userId, invoices[k].serviceId>>
        IN (/\ invoices[k].amount > 0
            /\ invoices[k].status = "Unpaid"
            /\ services[key].status = "Pending"
            /\ ~AdminStep)
           => /\ services'[key].status = "Pending"
              /\ invoices'[k].status = "Unpaid"]_vars

\* C6: handleAquaPanelLogin goes on to write credentials only for a Service
\* that exists under userId, is Active and has a subdomain; otherwise it
\* answers with a failure at once and pannelneed is left as it is.
C6_LoginOnlyWhenEligible ==
    [][\A p \in Procs, u \in UserInputs, sid \in SidInputs, secret \in Secrets :
        (/\ LoginBegin(p, u, sid, secret)
         /\ ~(/\ u # ""
              /\ sid # 0
              /\ services[<<u, sid>>].exists
              /\ services[<<u, sid>>].status = "Active"
              /\ services[<<u, sid>>].subdomain # NoString))
        => /\ proc'[p] = Idle
           /\ reply' = AnswerOf("login", "NotEligible")
           /\ pannelneed' = pannelneed]_vars

\* C7: with a webhook secret configured, a delivery whose signature is
\* missing or does not verify is answered 400 and changes no Service and no
\* Invoice.
C7_BadSignatureRejected ==
    [][\A p \in Procs, r \in WebhookRequests :
        (/\ stripe.webhookSecret
         /\ r.sig # "valid"
         /\ WebhookBegin(p, r.sig, r.type, r.u, r.planId, r.sid))
        => /\ reply' = AnswerOf("webhook", "400")
           /\ proc' = proc
           /\ services' = services
           /\ invoices' = invoices]_vars

\* A delivery was answered 400 while an Unpaid Invoice was waiting.
C7_Witness ==
    /\ reply = AnswerOf("webhook", "400")
    /\ stripe.webhookSecret
    /\ \E k \in 1..Len(invoices) : invoices[k].status = "Unpaid" /\ invoices[k].serviceId = 1

\* C8: orderService for a price above 0 writes the Service as Pending and
\* the Invoice as Unpaid with the price as amount; a verified
\* successful-payment webhook that finds this Invoice and is answered 200
\* leaves the Service Active and the Invoice Paid.
C8_PaidOrderThenWebhook ==
    [][\A p \in Procs :
        /\ (/\ proc[p].op = "order"
            /\ proc[p].price > 0
            /\ proc[p].pc = "o_service"
            /\ proc'[p] # proc[p])
           => /\ proc'[p].pc = "o_invoice"
              /\ services'[<<proc[p].u, proc'[p].sid>>].status = "Pending"
              /\ services'[<<proc[p].u, proc'[p].sid>>].price = proc[p].price
        /\ (/\ proc[p].op = "order"
            /\ proc[p].price > 0
            /\ proc[p].pc = "o_invoice"
            /\ proc'[p] # proc[p]
            /\ reply' = AnswerOf("order", "ok"))
           => /\ Len(invoices') = Len(invoices) + 1
              /\ invoices'[Len(invoices')] =
                    [userId |-> proc[p].u, serviceId |-> proc[p].sid,
                     amount |-> proc[p].price, status |-> "Unpaid"]
        /\ (/\ proc[p].op = "webhook"
            /\ proc[p].pc = "w_service"
            /\ proc[p].inv # 0
            /\ proc'[p] # proc[p]
            /\ reply' = AnswerOf("webhook", "200"))
           => /\ services'[<<proc[p].u, proc[p].sid>>].status = "Active"
              /\ invoices'[proc[p].inv].status = "Paid"
              /\ invoices'[proc[p].inv].serviceId = proc[p].sid]_vars

\* A paid order was followed by a webhook: Service Active, Invoice Paid.
C8_Witness ==
    /\ reply = AnswerOf("webhook", "200")
    /\ \E k \in 1..Len(invoices) :
        /\ invoices[k].amount = PaidPrice
        /\ invoices[k].status = "Paid"
        /\ services[<<invoices[k].userId, invoices[k].serviceId>>].status = "Active"
        /\ services[<<invoices[k].userId, invoices[k].serviceId>>].price = PaidPrice

\* C9: with orders alone (no checkout session, no webhook), every Service
\* of price 0 is Active and every Invoice of amount 0 is Paid and belongs to
\* an Active Service.
C9_FreeOrderActiveAndPaid ==
    /\ \A key \in ServiceKeys :
        (services[key].exists /\ services[key].price = 0) => services[key].status = "Active"
    /\ \A k \in 1..Len(invoices) :
        invoices[k].amount = 0 =>
            /\ invoices[k].status = "Paid"
            /\ services[<<invoices[k].userId, invoices[k].serviceId>>].status = "Active"
            /\ services[<<invoices[k].userId, invoices[k].serviceId>>].price = 0

\* A free order has just returned.
C9_Witness ==
    /\ reply = AnswerOf("order", "ok")
    /\ Len(invoices) > 0
    /\ invoices[Len(invoices)].amount = 0
    /\ \A p \in Procs : proc[p] = Idle

\* C10: no two records under subdomains carry the same serviceId.
C10_OneSubdomainPerService ==
    \A i, j \in 1..Len(subdomains) :
        (i # j /\ subdomains[i].serviceId # 0) => subdomains[i].serviceId # subdomains[j].serviceId

C12_PaidStaysPaid ==
    [][/\ Len(invoices') >= Len(invoices)
       /\ \A k \in 1..Len(invoices) :
            /\ invoices[k].status = "Paid" => invoices'[k].status = "Paid"
            /\ invoices'[k].status # invoices[k].status =>
                    invoices[k].status = "Unpaid" /\ invoices'[k].status = "Paid"]_vars

\* The administrator suspended a Service after its Invoice was paid, and
\* the Invoice is still Paid.
C12_Witness ==
    /\ reply = AnswerOf("admin", "ok")
    /\ \E k \in 1..Len(invoices) :
        /\ invoices[k].amount = PaidPrice
        /\ invoices[k].status = "Paid"
        /\ services[<<invoices[k].userId, invoices[k].serviceId>>].status = "Suspended"
        /\ services[<<invoices[k].userId, invoices[k].serviceId>>].subdomain # NoString

\* Number of Invoices that reference a serviceId.
InvoicesOf(inv, sid) == Cardinality({k \in 1..Len(inv) : inv[k].serviceId = sid})

\* C13: when orderService returns successfully exactly one Invoice
\* references the serviceId it returns, and no step of any operation adds a
\* second Invoice for a serviceId that already has one.
C13_OneInvoicePerService ==
    [][/\ \A p \in Procs :
            (/\ proc[p].op = "order"
             /\ proc'[p] = Idle
             /\ reply' = AnswerOf("order", "ok"))
            => InvoicesOf(invoices', proc[p].sid) = 1
       /\ \A sid \in Sids :
            InvoicesOf(invoices, sid) >= 1 => InvoicesOf(invoices', sid) = 1]_vars

\* Two orders have returned and the first Service has since been paid for by
\* a webhook and given a subdomain.
C13_Witness ==
    /\ Len(invoices) = 2
    /\ invoices[1].serviceId = 1
    /\ invoices[2].serviceId = 2
    /\ invoices[1].status = "Paid"
    /\ invoices[1].amount = PaidPrice
    /\ services[<<"u1", 1>>].subdomain # NoString
    /\ \A p \in Procs : proc[p] = Idle

\* C14: once a webhook delivery and a call of updateServiceStatus that ran
\* concurrently for the first Service of u1 have both returned, whatever the
\* interleaving and the target status, the Service is Active and its Invoice
\* is Paid.
C14_RaceConverges ==
    (/\ \A p \in Procs : proc[p] = Idle
     /\ reply \in {AnswerOf("admin", "ok"), AnswerOf("webhook", "200")}
     /\ FindInvoice(invoices, 1) # 0)
    => /\ services[<<"u1", 1>>].status = "Active"
       /\ invoices[FindInvoice(invoices, 1)].status = "Paid"

\* C15: a label shorter than 3 or longer than 30 characters, or with a
\* character other than a lowercase letter, a digit or a hyphen, or that
\* starts or ends with a hyphen, is rejected at once by
\* handleSubdomainCreation and by createSubdomain: the provisioning API is
\* not reached and nothing is written.
C15_InvalidLabelRejected ==
    [][\A label \in LabelInputs, u \in {"u1", ""}, sid \in {0, 1} :
        (/\ Free(1)
         /\ \/ Len(label) < 3
            \/ Len(label) > 30
            \/ \E i \in 1..Len(label) : label[i] \notin LowerAlnum \cup {"-"}
            \/ label[1] = "-"
            \/ label[Len(label)] = "-"
         /\ SubdomainBegin(1, label, u, sid) \/ HandleSubdomainCreation(1, label, u, sid))
        => /\ proc' = proc
           /\ reply'.op = "subdomain"
           /\ reply'.res \in {"InvalidLabel", "ValidationFailed"}
           /\ services' = services
           /\ subdomains' = subdomains
           /\ pannelneed' = pannelneed]_vars

\* A label was refused with the root domain configured and a Service waiting
\* for its subdomain.
C15_Witness ==
    /\ reply.op = "subdomain"
    /\ reply.res \in {"InvalidLabel", "ValidationFailed"}
    /\ domain = DomainCom
    /\ services[<<"u1", 1>>].exists
    /\ services[<<"u1", 1>>].subdomain = NoString

\* C16: a createSubdomain request for a label whose fully-qualified name
\* label.rootDomain is already recorded goes to the existence query without
\* writing, the record stays in place until then, and the query ends the
\* request as already taken: the provisioning API is not reached and no
\* Subdomain record and no Service is written.
C16_TakenNameRejected ==
    [][/\ Len(subdomains') >= Len(subdomains)
       /\ \A k \in 1..Len(subdomains) : subdomains'[k] = subdomains[k]
       /\ \A p \in Procs :
            /\ (/\ proc[p] = Idle
                /\ proc'[p].op = "subdomain"
                /\ \E k \in 1..Len(subdomains) :
                        subdomains[k].subdomain = proc'[p].label \o <<".">> \o domain)
               => /\ proc'[p].pc = "s_query"
                  /\ proc'[p].dom = domain
                  /\ store' = store
            /\ (/\ proc[p].op = "subdomain"
                /\ proc[p].pc = "s_query"
                /\ proc'[p] # proc[p]
                /\ \E k \in 1..Len(subdomains) :
                        subdomains[k].subdomain = proc[p].label \o <<".">> \o proc[p].dom)
               => /\ proc'[p] = Idle
                  /\ reply' = AnswerOf("subdomain", "AlreadyTaken")
                  /\ store' = store]_vars

\* A request for a recorded name was refused while the Service it was made
\* for has no subdomain.
C16_Witness ==
    /\ reply = AnswerOf("subdomain", "AlreadyTaken")
    /\ Len(subdomains) = 1
    /\ \E sid \in Sids : services[<<"u1", sid>>].exists /\ services[<<"u1", sid>>].subdomain = NoString
    /\ \A p \in Procs : proc[p] = Idle

\* C17: when the provisioning API answers with a non-2xx status, with a body
\* that is not JSON or with a status flag other than 1, or the call throws,
\* createSubdomain returns a failure and leaves every Subdomain record,
\* every Service and every stored credential as it was.
C17_ProvisioningFailureWritesNothing ==
    [][\A r \in ApiResponses, secret \in Secrets :
        (/\ r.thrown \/ ~r.httpOk \/ r.body = "text" \/ r.body = "status0"
         /\ SubdomainApi(1, CreateSubdomainOnServer(r), secret))
        => /\ proc'[1] = Idle
           /\ reply' = AnswerOf("subdomain", "ProvisioningFailed")
           /\ subdomains' = subdomains
           /\ services' = services
           /\ pannelneed' = pannelneed]_vars

\* The provisioning API failed for a request made for an existing Service:
\* nothing is recorded and the Service has no subdomain and no credentials.
C17_Witness ==
    /\ reply = AnswerOf("subdomain", "ProvisioningFailed")
    /\ subdomains = <<>>
    /\ services[<<"u1", 1>>].exists
    /\ services[<<"u1", 1>>].subdomain = NoString
    /\ services[<<"u1", 1>>].cpanel = NoCpanel
    /\ services[<<"u1", 1>>].status = "Pending"

\* C18: the write of a handleAquaPanelLogin call leaves exactly one record
\* under the panel username of its Service, holding the password and token
\* of this call, and leaves the records of other usernames alone; so the
\* credentials of earlier calls for the username are gone.
C18_LoginReplacesCredential ==
    [][\A p \in Procs :
        (/\ proc[p].op = "login"
         /\ proc[p].pc = "l_write"
         /\ reply' = AnswerOf("login", "ok")
         /\ proc'[p] = Idle)
        => /\ proc[p].label = PanelUsername(services[<<proc[p].u, proc[p].sid>>].subdomain)
           /\ Cardinality({k \in 1..Len(pannelneed') : pannelneed'[k].username = proc[p].label}) = 1
           /\ \A k \in 1..Len(pannelneed') :
                IF pannelneed'[k].username = proc[p].label
                THEN pannelneed'[k] = [username |-> proc[p].label, secret |-> proc[p].secret,
                                       userId |-> proc[p].u, serviceId |-> proc[p].sid]
                ELSE k <= Len(pannelneed) /\ pannelneed'[k] = pannelneed[k]
           /\ \A k \in 1..Len(pannelneed) :
                pannelneed[k].username # proc[p].label =>
                    \E j \in 1..Len(pannelneed') : pannelneed'[j] = pannelneed[k]]_vars

\* After an earlier login, a second login for the same Service is about to
\* replace the stored credentials with new ones, next to the credentials of
\* another Service.
C18_Witness ==
    /\ reply = AnswerOf("login", "ok")
    /\ Len(pannelneed) = 2
    /\ \E p \in Procs, k \in 1..Len(pannelneed) :
        /\ proc[p].op = "login"
        /\ proc[p].pc = "l_write"
        /\ pannelneed[k].username = proc[p].label
        /\ pannelneed[k].serviceId = proc[p].sid
        /\ pannelneed[k].secret # proc[p].secret

\* C19: with Stripe configured, a delivery with a valid signature of a
\* checkout.session.completed event whose metadata lacks userId, planId or
\* serviceId is answered 200 at once and changes no Service and no Invoice.
C19_MissingMetadataAcknowledged ==
    [][\A r \in WebhookRequests :
        (/\ stripe.secretKey
         /\ stripe.webhookSecret
         /\ r.sig = "valid"
         /\ r.type = "checkout.session.completed"
         /\ r.u = "" \/ r.planId = "" \/ r.sid = 0
         /\ WebhookBegin(1, r.sig, r.type, r.u, r.planId, r.sid))
        => /\ reply' = AnswerOf("webhook", "200")
           /\ proc' = proc
           /\ services' = services
           /\ invoices' = invoices]_vars

\* A delivery was answered 200 and the Service ordered before it is still
\* Pending with its Invoice Unpaid.
C19_Witness ==
    /\ reply = AnswerOf("webhook", "200")
    /\ stripe.secretKey
    /\ stripe.webhookSecret
    /\ \A p \in Procs : proc[p] = Idle
    /\ services[<<"u1", 1>>].status = "Pending"
    /\ Len(invoices) >= 1
    /\ invoices[1].status = "Unpaid"
    /\ invoices[1].serviceId = 1

\* C20: with Stripe configured, a delivery with a valid signature of an
\* event of a type other than checkout.session.completed is answered 200 at
\* once, whatever its metadata, and changes no Service and no Invoice.
C20_OtherEventsIgnored ==
    [][\A r \in WebhookRequests :
        (/\ stripe.secretKey
         /\ stripe.webhookSecret
         /\ r.sig = "valid"
         /\ r.type # "checkout.session.completed"
         /\ WebhookBegin(1, r.sig, r.type, r.u, r.planId, r.sid))
        => /\ reply' = AnswerOf("webhook", "200")
           /\ proc' = proc
           /\ services' = services
           /\ invoices' = invoices]_vars

\* A delivery was answered 200 and every Service ordered is still Pending
\* with its Invoice Unpaid: no delivery has been processed.
C20_Witness ==
    /\ reply = AnswerOf("webhook", "200")
    /\ stripe.secretKey
    /\ stripe.webhookSecret
    /\ \A p \in Procs : proc[p] = Idle
    /\ Len(invoices) = MaxServices
    /\ \A k \in 1..Len(invoices) :
        /\ invoices[k].status = "Unpaid"
        /\ services[<<invoices[k].userId, invoices[k].serviceId>>].status = "Pending"

\* C21: orderService with an empty userId, or with no plan or an empty
\* plan.id, fails at once with the request error: the restriction check is
\* not entered and no Service and no Invoice is written.
C21_InvalidOrderRejected ==
    [][\A u \in UserInputs, planId \in PlanInputs, price \in Prices :
        (/\ u = "" \/ planId = ""
         /\ OrderBegin(1, u, planId, price))
        => /\ proc' = proc
           /\ reply' = AnswerOf("order", "InvalidRequest")
           /\ services' = services
           /\ invoices' = invoices
           /\ nextKey' = nextKey]_vars

\* An order was refused for its arguments while the restriction was enabled
\* and the customer had a free Service.
C21_Witness ==
    /\ reply = AnswerOf("order", "InvalidRequest")
    /\ restrictions = "enabled"
    /\ services[<<"u1", 1>>].price = 0
    /\ Len(invoices) = 1

\* C22: a failure of a store step of the webhook handler is answered 500
\* and leaves the writes already applied in place; and when the gateway
\* keeps redelivering until a delivery runs without failure, a Service for
\* which a delivery was processed is in the end Active with its Invoice
\* Paid, and stays so.
C22_RedeliveryConverges ==
    /\ [][WebhookDbFail(1) => (reply' = AnswerOf("webhook", "500") /\ store' = store)]_vars
    /\ \A sid \in Sids :
        (proc[1].op = "webhook" /\ proc[1].sid = sid)
            ~> [](/\ services[<<"u1", sid>>].status = "Active"
                  /\ invoices[FindInvoice(invoices, sid)].status = "Paid")

\* A delivery failed after it had marked the Invoice Paid and before it
\* made the Service Active.
C22_Witness ==
    /\ reply = AnswerOf("webhook", "500")
    /\ proc[1] = Idle
    /\ \E k \in 1..Len(invoices) :
        /\ invoices[k].status = "Paid"
        /\ services[<<"u1", invoices[k].serviceId>>].status = "Pending"

\* C23: when createSubdomain returns successfully for a serviceId, a
\* Subdomain record with the fully-qualified name exists, the Service has
\* that subdomain and is Active, and a credential bundle keyed by the label
\* with the generated password and token is stored under pannelneed, the
\* node the external panel reads; the Service is updated after the record
\* has been written.
C23_SubdomainSuccessState ==
    [][\A p \in Procs :
        (/\ proc[p].op = "subdomain"
         /\ proc[p].sid # 0
         /\ proc'[p] = Idle
         /\ reply' = AnswerOf("subdomain", "ok"))
        => LET full == proc[p].label \o <<".">> \o proc[p].dom
               key == <<proc[p].u, proc[p].sid>>
           IN /\ \E k \in 1..Len(subdomains) : subdomains[k].subdomain = full
              /\ subdomains' = subdomains
              /\ services'[key].subdomain = full
              /\ services'[key].status = "Active"
              /\ \E k \in 1..Len(pannelneed') :
                    /\ pannelneed'[k].username = proc[p].label
                    /\ pannelneed'[k].secret = proc[p].secret]_vars

\* C24: a delivery of a verified successful-payment event that finds no
\* Invoice for its serviceId goes on when its store operations go through:
\* it makes the Service Active, creates no Invoice and is answered 200.
C24_NoInvoiceNotFatal ==
    [][\A p \in Procs :
        /\ (/\ proc[p].op = "webhook"
            /\ proc[p].pc = "w_query"
            /\ \A k \in 1..Len(invoices) : invoices[k].serviceId # proc[p].sid
            /\ proc'[p] # proc[p])
           => /\ proc'[p].pc = "w_service"
              /\ proc'[p].inv = 0
              /\ store' = store
        /\ (/\ proc[p].op = "webhook"
            /\ proc[p].pc = "w_service"
            /\ proc[p].inv = 0
            /\ proc'[p] # proc[p])
           => /\ services'[<<proc[p].u, proc[p].sid>>].status = "Active"
              /\ invoices' = invoices
              /\ reply' = AnswerOf("webhook", "200")]_vars

\* A delivery was answered 200 and made a Service Active with no Invoice
\* on record.
C24_Witness ==
    /\ reply = AnswerOf("webhook", "200")
    /\ invoices = <<>>
    /\ \E sid \in Sids : services[<<"u1", sid>>].status = "Active"

\* C25: when orderService stops between the Service write and the Invoice
\* write, the Service stays as written with no Invoice; and a Service that
\* no order in flight is about to invoice keeps existing and, if it has no
\* Invoice, gets none in any later step of any operation.
C25_OrphanServiceStays ==
    [][/\ \A p \in Procs :
            (proc[p].op = "order" /\ proc[p].pc = "o_invoice" /\ reply' = AnswerOf("order", "error"))
            => /\ services' = services
               /\ invoices' = invoices
               /\ services[<<proc[p].u, proc[p].sid>>].exists
               /\ InvoicesOf(invoices, proc[p].sid) = 0
       /\ \A key \in ServiceKeys :
            (/\ services[key].exists
             /\ services[key].planId # ""
             /\ \A p \in Procs : ~(proc[p].op = "order" /\ proc[p].sid = key[2]))
            => /\ services'[key].exists
               /\ services'[key].planId = services[key].planId
               /\ InvoicesOf(invoices, key[2]) = 0 => InvoicesOf(invoices', key[2]) = 0]_vars

\* A Service left without Invoice by a failed order has since been paid for
\* through the webhook and given a subdomain, and still has no Invoice.
C25_Witness ==
    /\ services[<<"u1", 1>>].planId = "p1"
    /\ services[<<"u1", 1>>].status = "Active"
    /\ services[<<"u1", 1>>].price = PaidPrice
    /\ services[<<"u1", 1>>].subdomain # NoString
    /\ InvoicesOf(invoices, 1) = 0
    /\ Len(invoices) = 1
    /\ \A p \in Procs : proc[p] = Idle

\* C26: the webhook handler changes the status of a Service only from
\* Pending: its update leaves an ordered Service that the administrator has
\* set to Suspended, Terminated or Banned in that status.
C26_WebhookOnlyFromPending ==
    [][\A p \in Procs :
        (/\ proc[p].op = "webhook"
         /\ proc'[p] # proc[p]
         /\ services[<<proc[p].u, proc[p].sid>>].planId # ""
         /\ services[<<proc[p].u, proc[p].sid>>].status \in {"Suspended", "Terminated", "Banned"})
        => services'[<<proc[p].u, proc[p].sid>>].status = services[<<proc[p].u, proc[p].sid>>].status]_vars

\* C27: updateServiceStatus(userId, serviceId, s) sets the status of the
\* Service to s and changes no Invoice in that step; for s other than Active
\* it returns there, so every Invoice is as before the call; for Active it
\* goes on to set the first Invoice of the Service, when there is one, to
\* Paid and changes no other Invoice.
C27_AdminStatusAndInvoice ==
    [][\A p \in Procs :
        /\ (proc[p].op = "admin" /\ proc[p].pc = "a_service" /\ proc'[p] # proc[p])
           => /\ services'[<<proc[p].u, proc[p].sid>>].status = proc[p].st
              /\ invoices' = invoices
              /\ proc[p].st # "Active" => (proc'[p] = Idle /\ reply' = AnswerOf("admin", "ok"))
              /\ proc[p].st = "Active" => proc'[p].pc = "a_query"
        /\ (proc[p].op = "admin" /\ proc[p].pc = "a_query" /\ proc'[p] # proc[p])
           => /\ proc[p].st = "Active"
              /\ store' = store
              /\ IF InvoicesOf(invoices, proc[p].sid) = 0
                 THEN proc'[p] = Idle /\ reply' = AnswerOf("admin", "ok")
                 ELSE proc'[p].pc = "a_invoice" /\ invoices[proc'[p].inv].serviceId = proc[p].sid
        /\ (proc[p].op = "admin" /\ proc[p].pc = "a_invoice" /\ proc'[p] # proc[p])
           => /\ services' = services
              /\ services[<<proc[p].u, proc[p].sid>>].status = "Active"
              /\ invoices[proc[p].inv].serviceId = proc[p].sid
              /\ Len(invoices') = Len(invoices)
              /\ \A k \in 1..Len(invoices) :
                    IF k = proc[p].inv
                    THEN invoices'[k] = [invoices[k] EXCEPT !.status = "Paid"]
                    ELSE invoices'[k] = invoices[k]
              /\ reply' = AnswerOf("admin", "ok")]_vars

\* The administrator banned a Service whose Invoice was Paid, and the
\* Invoice is still Paid.
C27_Witness ==
    /\ reply = AnswerOf("admin", "ok")
    /\ \E k \in 1..Len(invoices) :
        /\ invoices[k].status = "Paid"
        /\ invoices[k].amount = PaidPrice
        /\ services[<<"u1", invoices[k].serviceId>>].status = "Banned"

\* C28: when createStripeCheckoutSession creates a session with a charge for
\* a Service that has an Invoice, the unit_amount it charges (in hundredths)
\* is the amount of that Invoice.
C28_ChargeEqualsInvoice ==
    [][\A p \in Procs :
        (/\ proc[p].op = "checkout"
         /\ proc[p].pc = "c_stripe"
         /\ proc'[p] = Idle
         /\ reply' = AnswerOf("checkout", "session")
         /\ proc[p].price # 0
         /\ services[<<proc[p].u, proc[p].sid>>].planId = proc[p].planId
         /\ FindInvoice(invoices, proc[p].sid) # 0)
        => proc[p].price = invoices[FindInvoice(invoices, proc[p].sid)].amount * 100]_vars

\* C29: every record under users/{userId}/services was written by
\* orderService: it carries the planId and the price of its order.
C29_ServicesComeFromOrders ==
    \A key \in ServiceKeys :
        services[key] # NoService => (services[key].planId # "" /\ services[key].price # NoPrice)

\* C30: a handleAquaPanelLogin call for one ordered Service never replaces
\* the credential record that a login for another ordered Service has stored.
C30_LoginKeepsOtherCredentials ==
    [][\A p \in Procs :
        (/\ proc[p].op = "login" /\ proc[p].pc = "l_write" /\ proc'[p] # proc[p]
         /\ services[<<proc[p].u, proc[p].sid>>].planId # "")
        => \A k \in 1..Len(pannelneed) :
              (/\ pannelneed[k].userId # proc[p].u \/ pannelneed[k].serviceId # proc[p].sid
               /\ services[<<pannelneed[k].userId, pannelneed[k].serviceId>>].planId # "")
              => (Len(pannelneed') >= k /\ pannelneed'[k] = pannelneed[k])]_vars

====
